---- MODULE Spec2Model ----
\* A model of src/main.cpp: the AoS and SoA layout policies, BaseContainer,
\* the position-based Iterator and the ref_wrap field proxy.
\*
\* Integer widths are scaled down: std::size_t has SizeBits bits and `unsigned`
\* has UnsignedBits bits (on the LP64 targets of the program these are 64 and
\* 32).  std::vector is a finite sequence of at most MaxSize elements
\* (vector::max_size()); growing a vector may throw (std::bad_alloc, or
\* std::length_error beyond max_size) and leaves that vector unchanged.
\* An exception that leaves a container operation is not caught anywhere in
\* the program, so the run ends there (std::terminate).
EXTENDS Integers, Sequences, FiniteSets, TLC

VARIABLES cont, last, failed, it, pc, visited, cmp

vars == <<cont, last, failed, it, pc, visited, cmp>>

-----------------------------------------------------------------------------
\* Bounds and scaled widths.

\* Width of `unsigned`, the type of doResize's size_ parameter.
UnsignedBits == 2

\* vector::max_size(): the longest sequence a vector can hold.
MaxSize == 4

\* Number of fields of the Item Type (Types...).
NumFields == 2

\* Width of std::size_t: wider than `unsigned`, as on LP64.
SizeBits == UnsignedBits + 1

UnsignedMod == 2 ^ UnsignedBits

SizeMod == 2 ^ SizeBits

\* std::numeric_limits<std::size_t>::max()
SizeMax == SizeMod - 1

\* The values of std::size_t.
SizeT == 0 .. SizeMax

\* The indices Ids... of the parameter pack, in declaration order.
Fields == 1 .. NumFields

\* The values a field can hold; every field type is abstracted to this set.
Values == {0, 1}

\* T(): the value vector::resize gives a new element.
DefaultValue == 0

\* TItem<Types...>: one value per field.
Items == [Fields -> Values]

DefaultItem == [f \in Fields |-> DefaultValue]

Layouts == {"AoS", "SoA"}

ContIds == {1, 2}

-----------------------------------------------------------------------------
\* std::vector, as far as the policies use it.

\* v.resize(n) when it returns: truncate, or append value-initialised elements.
VectorResize(v, n, dflt) ==
    IF n <= Len(v) THEN SubSeq(v, 1, n)
    ELSE v \o [i \in 1 .. (n - Len(v)) |-> dflt]

\* v.resize(n) can throw only when it has to grow.
VectorResizeMayThrow(v, n) == n > Len(v)

\* v.resize(n) can return only when n <= max_size().
VectorResizeMayReturn(v, n) == n <= MaxSize

\* v.push_back(x) when it returns.
VectorPushBack(v, x) == Append(v, x)

VectorPushBackMayReturn(v) == Len(v) < MaxSize

-----------------------------------------------------------------------------
\* DataLayoutPolicy<Container, DataLayout::AoS, TItem<Types...>>.
\* type = Container<TItem<Types...>>: one sequence of Items.

AoS_empty == << >>

AoS_get(c_, position_) == c_[position_ + 1]

AoS_size(c_) == Len(c_)

\* The outcomes of resize(c_, size_): [c |-> storage, ok |-> returned, k |-> 0].
AoS_resize(c_, size_) ==
    {[c |-> VectorResize(c_, size_, DefaultItem), ok |-> TRUE, k |-> 0] :
        x \in {y \in {0} : VectorResizeMayReturn(c_, size_)}}
    \cup
    {[c |-> c_, ok |-> FALSE, k |-> 0] :
        x \in {y \in {0} : VectorResizeMayThrow(c_, size_)}}

AoS_push_back(c_, val_) ==
    {[c |-> VectorPushBack(c_, val_), ok |-> TRUE, k |-> 0] :
        x \in {y \in {0} : VectorPushBackMayReturn(c_)}}
    \cup
    {[c |-> c_, ok |-> FALSE, k |-> 0]}

\* get(c_, i).field() = x: value_type is TItem&, the field is written in place.
AoS_write(c_, position_, f, x, cat) ==
    [c_ EXCEPT ![position_ + 1][f] = x]

-----------------------------------------------------------------------------
\* DataLayoutPolicy<Container, DataLayout::SoA, TItem<Types...>>.
\* type = std::tuple<Container<Types>...>: one sequence per field.

SoA_empty == [f \in Fields |-> << >>]

\* std::get<0>(c_).size()
SoA_size(c_) == Len(c_[1])

\* value_type{ ref_wrap(std::get<Ids>(c_)[position_])... }, read field by field.
SoA_doGet(c_, position_) == [f \in Fields |-> c_[f][position_ + 1]]

SoA_get(c_, position_) == SoA_doGet(c_, position_)

\* The conversion of the std::size_t argument to doResize's `unsigned size_`.
ToUnsigned(size_) == size_ % UnsignedMod

\* (std::get<Ids>(c_).resize(size_), ...): the fields are resized in order.
\* Either every resize returns, or the resize of field k throws after the
\* fields before k were resized.
\* doResize with a fold that stops before the last field.
SoA_doResize_SkipLast(c_, size_) ==
    {[c |-> [f \in Fields |->
                IF f < NumFields THEN VectorResize(c_[f], size_, DefaultValue) ELSE c_[f]],
      ok |-> TRUE, k |-> 0] :
        x \in {y \in {0} : \A f \in Fields : VectorResizeMayReturn(c_[f], size_)}}

SoA_doResize(c_, size_) ==
    {[c |-> [f \in Fields |-> VectorResize(c_[f], size_, DefaultValue)],
      ok |-> TRUE, k |-> 0] :
        x \in {y \in {0} : \A f \in Fields : VectorResizeMayReturn(c_[f], size_)}}
    \cup
    {[c |-> [f \in Fields |->
                IF f < k THEN VectorResize(c_[f], size_, DefaultValue) ELSE c_[f]],
      ok |-> FALSE, k |-> k] :
        k \in {j \in Fields :
                 /\ VectorResizeMayThrow(c_[j], size_)
                 /\ \A f \in 1 .. (j - 1) : VectorResizeMayReturn(c_[f], size_)}}

SoA_resize(c_, size_) == SoA_doResize(c_, ToUnsigned(size_))

\* (std::get<Ids>(c_).push_back(std::get<Ids>(val_)), ...)
\* doPushBack that appends std::get<0>(val_) to every field.
SoA_doPushBack_FirstOnly(c_, val_) ==
    {[c |-> [f \in Fields |-> VectorPushBack(c_[f], val_[1])],
      ok |-> TRUE, k |-> 0] :
        x \in {y \in {0} : \A f \in Fields : VectorPushBackMayReturn(c_[f])}}

SoA_doPushBack(c_, val_) ==
    {[c |-> [f \in Fields |-> VectorPushBack(c_[f], val_[f])],
      ok |-> TRUE, k |-> 0] :
        x \in {y \in {0} : \A f \in Fields : VectorPushBackMayReturn(c_[f])}}
    \cup
    {[c |-> [f \in Fields |->
                IF f < k THEN VectorPushBack(c_[f], val_[f]) ELSE c_[f]],
      ok |-> FALSE, k |-> k] :
        k \in {j \in Fields :
                 \A f \in 1 .. (j - 1) : VectorPushBackMayReturn(c_[f])}}

SoA_push_back(c_, val_) == SoA_doPushBack(c_, val_)

\* ref_wrap<T>: the value of the referenced slot after `w = x`.
\* An rvalue x selects ref_wrap::operator=(T&&), which assigns through the
\* reference.  A non-const lvalue x cannot bind to T&&: it is converted by
\* ref_wrap(T&) and the implicit assignment inherited from
\* std::reference_wrapper re-seats the wrapper, leaving the slot as it was.
ref_wrap_assign(slot, x, cat) ==
    IF cat = "rvalue" THEN x ELSE slot

\* get(c_, i).field() = x, through the ref_wrap of field f.
SoA_write(c_, position_, f, x, cat) ==
    [c_ EXCEPT ![f][position_ + 1] = ref_wrap_assign(@, x, cat)]

-----------------------------------------------------------------------------
\* policy_t: the dispatch on the layout selector (resolved at compile time).

policy_empty(L) == IF L = "AoS" THEN AoS_empty ELSE SoA_empty

policy_size(L, c_) == IF L = "AoS" THEN AoS_size(c_) ELSE SoA_size(c_)

policy_get(L, c_, p) == IF L = "AoS" THEN AoS_get(c_, p) ELSE SoA_get(c_, p)

policy_resize(L, c_, n) == IF L = "AoS" THEN AoS_resize(c_, n) ELSE SoA_resize(c_, n)

policy_push_back(L, c_, v) ==
    IF L = "AoS" THEN AoS_push_back(c_, v) ELSE SoA_push_back(c_, v)

policy_write(L, c_, p, f, x, cat) ==
    IF L = "AoS" THEN AoS_write(c_, p, f, x, cat) ELSE SoA_write(c_, p, f, x, cat)

\* The length of the array that holds field f.
FieldLen(L, c_, f) == IF L = "AoS" THEN Len(c_) ELSE Len(c_[f])

\* The positions operator[] may be applied to: inside every array it indexes.
ValidPos(L, c_) == {p \in 0 .. MaxSize : \A f \in Fields : p < FieldLen(L, c_, f)}

-----------------------------------------------------------------------------
\* BaseContainer.  A container is [layout, mValues].

size(b) == policy_size(b.layout, b.mValues)

index(b, position_) == policy_get(b.layout, b.mValues, position_)

\* BaseContainer(size_): resize(size_) on the empty mValues; the containers
\* whose constructor returned.
Constructed(L, size_) ==
    {[layout |-> L, mValues |-> o.c] :
        o \in {r \in policy_resize(L, policy_empty(L), size_) : r.ok}}

\* The record of the call made last: its name, its arguments (n of resize and
\* of the constructor; val of push_back; pos, field, x, cat, copy of a write),
\* whether it returned (ok) and, when it threw, the field it threw on (k).
NoOp == [op |-> "none", n |-> 0, pos |-> 0, field |-> 1, val |-> DefaultItem,
         x |-> DefaultValue, cat |-> "rvalue", copy |-> FALSE, ok |-> TRUE, k |-> 0]

\* Iterator(container_, position_): [mContainer, mIterPosition].
Iterator(container_, position_) ==
    [mContainer |-> container_, mIterPosition |-> position_]

\* The two iterators of the model.
ItIds == {1, 2}

NoCmp == [ne |-> FALSE, eq |-> FALSE]

\* No iteration is going on: both iterators are container 1's begin().
IterIdle ==
    /\ it = [j \in ItIds |-> Iterator(1, 0)]
    /\ pc = "idle"
    /\ visited = << >>
    /\ cmp = NoCmp

\* One container, of either layout, constructed with any size.
Init ==
    /\ \E L \in Layouts, n \in SizeT :
          /\ \E b \in Constructed(L, n) :
                cont = [i \in ContIds |-> IF i = 1 THEN b
                                          ELSE [layout |-> L, mValues |-> policy_empty(L)]]
          /\ last = [NoOp EXCEPT !.op = "construct", !.n = n]
    /\ failed = FALSE
    /\ IterIdle

UnchangedIter == UNCHANGED <<it, pc, visited, cmp>>

\* container.resize(size_)
Resize(n) ==
    /\ ~failed
    /\ \E o \in policy_resize(cont[1].layout, cont[1].mValues, n) :
          /\ cont' = [cont EXCEPT ![1].mValues = o.c]
          /\ failed' = ~o.ok
          /\ last' = [NoOp EXCEPT !.op = "resize", !.n = n, !.ok = o.ok, !.k = o.k]
    /\ UnchangedIter

\* container.push_back(val)
PushBack(v) ==
    /\ ~failed
    /\ \E o \in policy_push_back(cont[1].layout, cont[1].mValues, v) :
          /\ cont' = [cont EXCEPT ![1].mValues = o.c]
          /\ failed' = ~o.ok
          /\ last' = [NoOp EXCEPT !.op = "push_back", !.val = v, !.ok = o.ok, !.k = o.k]
    /\ UnchangedIter

\* container[p].field() = x, or the same through a copy of the view
\* (value_type e = container[p]; e.field() = x).  cat is the value category
\* of x.  A copy of the view holds the same references as the view.
WriteField(p, f, x, cat, copy) ==
    /\ ~failed
    /\ p \in ValidPos(cont[1].layout, cont[1].mValues)
    /\ cont' = [cont EXCEPT ![1].mValues =
                    policy_write(cont[1].layout, cont[1].mValues, p, f, x, cat)]
    /\ last' = [NoOp EXCEPT !.op = "write", !.pos = p, !.field = f, !.x = x,
                            !.cat = cat, !.copy = copy]
    /\ UNCHANGED failed
    /\ UnchangedIter

Next ==
    \/ \E n \in SizeT : Resize(n)
    \/ \E v \in Items : PushBack(v)

\* The container operations: resize and push_back.
Spec == Init /\ [][Next]_vars

NextWrite ==
    \/ \E n \in SizeT : Resize(n)
    \/ \E v \in Items : PushBack(v)
    \/ \E p \in 0 .. MaxSize, f \in Fields, x \in Values,
          cat \in {"rvalue", "lvalue"}, copy \in BOOLEAN : WriteField(p, f, x, cat, copy)

\* The container operations and the writes through the element view.
SpecWrite == Init /\ [][NextWrite]_vars

-----------------------------------------------------------------------------
\* Claims about resize, push_back and size (Spec).

\* C1: on an SoA container, after any sequence of resize and push_back calls
\* none of which failed, every per-field array has the length size() returns.
C1_SoAEqualLength ==
    (cont[1].layout = "SoA" /\ ~failed) =>
        \A f \in Fields : Len(cont[1].mValues[f]) = size(cont[1])

\* C1 witness: an SoA container that was grown by push_back and then resized
\* to a smaller, non-zero size.
C1_Witness ==
    /\ cont[1].layout = "SoA"
    /\ ~failed
    /\ last.op = "resize" /\ last.ok
    /\ size(cont[1]) >= 2
    /\ \E f \in Fields : \E p \in 1 .. Len(cont[1].mValues[f]) :
          cont[1].mValues[f][p] # DefaultValue

\* C2: constructing with size N, or resize(N) that returns, yields
\* size() == N, for every N of std::size_t and either layout.
C2_SizeIsRequested ==
    (last.op \in {"construct", "resize"} /\ last.ok) => size(cont[1]) = last.n

\* C3: a push_back(v) that returns on a container of size N leaves size()
\* N+1 and index(N) equal to v field by field, for either layout.
C3_PushBackAppends ==
    [][(last'.op = "push_back" /\ last'.ok) =>
          /\ size(cont'[1]) = size(cont[1]) + 1
          /\ index(cont'[1], size(cont[1])) = last'.val]_vars

\* C3 witness: a push_back of a value with two different fields has returned
\* on a container that is now full.
C3_Witness ==
    /\ last.op = "push_back" /\ last.ok
    /\ size(cont[1]) = MaxSize
    /\ \E f, g \in Fields : last.val[f] # last.val[g]

\* C9: when an SoA resize or push_back throws on field k with every array of
\* length N, the fields before k have the new length (the requested size, or
\* N+1) and field k and the fields after it still have length N.
C9_PartialOnFailure ==
    [][(cont[1].layout = "SoA" /\ last'.op \in {"resize", "push_back"} /\ ~last'.ok) =>
          LET N == size(cont[1])
              new == IF last'.op = "resize" THEN last'.n ELSE N + 1
          IN  \A f \in Fields :
                 Len(cont'[1].mValues[f]) = IF f < last'.k THEN new ELSE N]_vars

Min(a, b) == IF a < b THEN a ELSE b

\* C10: a resize(n) that returns on a container of size m keeps every
\* position below min(m, n) and fills every position in [m, n) with the
\* default value; a freshly constructed container holds default values only.
C10_ResizeKeepsAndFills ==
    /\ last.op = "construct" =>
          \A p \in ValidPos(cont[1].layout, cont[1].mValues) :
             index(cont[1], p) = DefaultItem
    /\ [][(last'.op = "resize" /\ last'.ok) =>
             LET m == size(cont[1])
                 n == last'.n
             IN  /\ \A p \in 0 .. (Min(m, n) - 1) :
                       /\ p < size(cont'[1])
                       /\ index(cont'[1], p) = index(cont[1], p)
                 /\ \A p \in m .. (n - 1) :
                       /\ p < size(cont'[1])
                       /\ index(cont'[1], p) = DefaultItem]_vars

-----------------------------------------------------------------------------
\* Claims about writes through the element view (SpecWrite).

\* C5: after a value x is written to field f through index(i), or through a
\* copy of that view, index(i) reads x for field f, for either layout.
C5_WriteThrough ==
    last.op = "write" => index(cont[1], last.pos)[last.field] = last.x

-----------------------------------------------------------------------------
\* Two containers of the same Item Type, container 1 AoS and container 2 SoA,
\* constructed with the same size and driven by the same calls (SpecPair).

LayoutOf == [i \in ContIds |-> IF i = 1 THEN "AoS" ELSE "SoA"]

InitPair ==
    /\ \E n \in SizeT :
          \E b1 \in Constructed(LayoutOf[1], n), b2 \in Constructed(LayoutOf[2], n) :
             cont = [i \in ContIds |-> IF i = 1 THEN b1 ELSE b2]
    /\ last = NoOp
    /\ failed = FALSE
    /\ IterIdle

\* resize(n) on both containers.
ResizePair(n) ==
    /\ ~failed
    /\ \E o1 \in policy_resize(cont[1].layout, cont[1].mValues, n),
          o2 \in policy_resize(cont[2].layout, cont[2].mValues, n) :
          /\ cont' = [cont EXCEPT ![1].mValues = o1.c, ![2].mValues = o2.c]
          /\ failed' = ~(o1.ok /\ o2.ok)
    /\ UNCHANGED last
    /\ UnchangedIter

\* push_back(v) on both containers.
PushBackPair(v) ==
    /\ ~failed
    /\ \E o1 \in policy_push_back(cont[1].layout, cont[1].mValues, v),
          o2 \in policy_push_back(cont[2].layout, cont[2].mValues, v) :
          /\ cont' = [cont EXCEPT ![1].mValues = o1.c, ![2].mValues = o2.c]
          /\ failed' = ~(o1.ok /\ o2.ok)
    /\ UNCHANGED last
    /\ UnchangedIter

\* container[p].field() = x on both containers.
WriteFieldPair(p, f, x, cat) ==
    /\ ~failed
    /\ \A i \in ContIds : p \in ValidPos(cont[i].layout, cont[i].mValues)
    /\ cont' = [i \in ContIds |->
                  [cont[i] EXCEPT !.mValues =
                      policy_write(cont[i].layout, cont[i].mValues, p, f, x, cat)]]
    /\ UNCHANGED <<last, failed>>
    /\ UnchangedIter

NextPair ==
    \/ \E n \in SizeT : ResizePair(n)
    \/ \E v \in Items : PushBackPair(v)
    \/ \E p \in 0 .. MaxSize, f \in Fields, x \in Values,
          cat \in {"rvalue", "lvalue"} : WriteFieldPair(p, f, x, cat)

SpecPair == InitPair /\ [][NextPair]_vars

\* C4: the same sequence of push_back, resize and field writes applied to an
\* AoS and an SoA container constructed with the same size leaves, after every
\* step, the same size() and the same fields at every position below size().
C4_LayoutsAgree ==
    ~failed =>
        /\ size(cont[1]) = size(cont[2])
        /\ \A p \in 0 .. (size(cont[1]) - 1) :
              /\ p < size(cont[2])
              /\ index(cont[1], p) = index(cont[2], p)

-----------------------------------------------------------------------------
\* Iterator, and the range-for loop of main (SpecIter).

\* std::numeric_limits<std::size_t>::infinity(): std::size_t has no infinity,
\* and numeric_limits then returns T().
NumericLimitsInfinity == 0

begin(c) == Iterator(c, 0)

end(c) == Iterator(c, size(cont[c]))

\* An operator!= that also tells iterators of different containers apart.
IterNe_WithContainer(lhs, rhs) ==
    lhs.mIterPosition # rhs.mIterPosition \/ lhs.mContainer # rhs.mContainer

\* operator!=: the positions differ.  mContainer is not looked at.
IterNe(lhs, rhs) == lhs.mIterPosition # rhs.mIterPosition

\* operator==: !operator!=(lhs, rhs)
IterEq(lhs, rhs) == ~IterNe(lhs, rhs)

\* An operator+= that adds size_ twice.
PlusEq_Twice(i, size_) ==
    [i EXCEPT !.mIterPosition = (@ + size_ + size_) % SizeMod]

\* operator+= on a std::size_t position.
PlusEq(i, size_) == [i EXCEPT !.mIterPosition = (@ + size_) % SizeMod]

\* operator-= on a std::size_t position.
MinusEq(i, size_) == [i EXCEPT !.mIterPosition = (@ + SizeMod - size_) % SizeMod]

\* operator++: operator+=(1)
Incr(i) == PlusEq(i, 1)

\* operator--: operator-=(1)
Decr(i) == MinusEq(i, 1)

\* operator=(std::nullptr_t const&): the store of infinity().
AssignNullStore(i) == [i EXCEPT !.mIterPosition = NumericLimitsInfinity]

\* operator=(Iterator const&): the position is copied, the container is not.
AssignStore(i, other_) == [i EXCEPT !.mIterPosition = other_.mIterPosition]

\* Both assignment operators then flow off the end of a function that returns
\* Iterator&, which is undefined: a build either returns to the caller with
\* the store done, or runs on past the end of the body and the run is lost.
FlowOffEnd == {"returns", "lost"}

\* The amounts operator+= and operator-= are called with directly; ++ and --
\* call them with 1.
Steps == {2}

\* Two containers of one type, constructed with any sizes.
\* The record of an iterator operation: "iter", "assign_null" or "compare".
IterOp(name) == [NoOp EXCEPT !.op = name]

InitIter ==
    /\ \E L \in Layouts, n1 \in SizeT, n2 \in SizeT :
          \E b1 \in Constructed(L, n1), b2 \in Constructed(L, n2) :
             cont = [i \in ContIds |-> IF i = 1 THEN b1 ELSE b2]
    /\ last = IterOp("iter")
    /\ failed = FALSE
    /\ IterIdle

\* it[j] = container c's begin()
Begin(j, c) ==
    /\ pc = "idle"
    /\ it' = [it EXCEPT ![j] = begin(c)]
    /\ last' = IterOp("iter")
    /\ cmp' = NoCmp
    /\ UNCHANGED <<cont, failed, pc, visited>>

\* it[j] = container c's end()
End(j, c) ==
    /\ pc = "idle"
    /\ it' = [it EXCEPT ![j] = end(c)]
    /\ last' = IterOp("iter")
    /\ cmp' = NoCmp
    /\ UNCHANGED <<cont, failed, pc, visited>>

\* it[j] += d
Advance(j, d) ==
    /\ pc = "idle"
    /\ it' = [it EXCEPT ![j] = PlusEq(@, d)]
    /\ last' = IterOp("iter")
    /\ cmp' = NoCmp
    /\ UNCHANGED <<cont, failed, pc, visited>>

\* it[j] -= d
Retreat(j, d) ==
    /\ pc = "idle"
    /\ it' = [it EXCEPT ![j] = MinusEq(@, d)]
    /\ last' = IterOp("iter")
    /\ cmp' = NoCmp
    /\ UNCHANGED <<cont, failed, pc, visited>>

\* ++it[j]
Increment(j) ==
    /\ pc = "idle"
    /\ it' = [it EXCEPT ![j] = Incr(@)]
    /\ last' = IterOp("iter")
    /\ cmp' = NoCmp
    /\ UNCHANGED <<cont, failed, pc, visited>>

\* --it[j]
Decrement(j) ==
    /\ pc = "idle"
    /\ it' = [it EXCEPT ![j] = Decr(@)]
    /\ last' = IterOp("iter")
    /\ cmp' = NoCmp
    /\ UNCHANGED <<cont, failed, pc, visited>>

\* it[1] = it[2]
Assign ==
    /\ pc = "idle"
    /\ it' = [it EXCEPT ![1] = AssignStore(@, it[2])]
    /\ \E o \in FlowOffEnd : pc' = IF o = "returns" THEN "idle" ELSE "lost"
    /\ last' = IterOp("iter")
    /\ cmp' = NoCmp
    /\ UNCHANGED <<cont, failed, visited>>

\* it[1] = nullptr
AssignNull ==
    /\ pc = "idle"
    /\ it' = [it EXCEPT ![1] = AssignNullStore(@)]
    /\ \E o \in FlowOffEnd : pc' = IF o = "returns" THEN "idle" ELSE "lost"
    /\ last' = IterOp("assign_null")
    /\ cmp' = NoCmp
    /\ UNCHANGED <<cont, failed, visited>>

\* it[1] != it[2] and it[1] == it[2]
Compare ==
    /\ pc = "idle"
    /\ cmp' = [ne |-> IterNe(it[1], it[2]), eq |-> IterEq(it[1], it[2])]
    /\ last' = IterOp("compare")
    /\ UNCHANGED <<cont, failed, it, pc, visited>>

\* for (auto&& i : container_): __begin = begin(), __end = end().
\* it[1] is the loop's __begin and it[2] its __end while the loop runs.
LoopStart ==
    /\ pc = "idle"
    /\ it' = [j \in ItIds |-> IF j = 1 THEN begin(1) ELSE end(1)]
    /\ visited' = << >>
    /\ pc' = "test"
    /\ last' = IterOp("iter")
    /\ cmp' = NoCmp
    /\ UNCHANGED <<cont, failed>>

\* __begin != __end
LoopTest ==
    /\ pc = "test"
    /\ pc' = IF IterNe(it[1], it[2]) THEN "body" ELSE "done"
    /\ UNCHANGED <<cont, last, failed, it, visited, cmp>>

\* auto&& i = *__begin; i.myDouble() = static_cast<double>(argc); ++__begin.
\* Dereferencing a position outside the arrays is undefined: the run is
\* given up there (pc = "ub").
LoopBody ==
    /\ pc = "body"
    /\ LET b == cont[it[1].mContainer]
           p == it[1].mIterPosition
       IN  IF p \in ValidPos(b.layout, b.mValues)
           THEN /\ cont' = [cont EXCEPT ![it[1].mContainer].mValues =
                              policy_write(b.layout, b.mValues, p, 1, 1, "rvalue")]
                /\ visited' = Append(visited, p)
                /\ it' = [it EXCEPT ![1] = Incr(@)]
                /\ pc' = "test"
           ELSE /\ pc' = "ub"
                /\ UNCHANGED <<cont, visited, it>>
    /\ UNCHANGED <<last, failed, cmp>>

\* The loop is left.
LoopExit ==
    /\ pc = "done"
    /\ pc' = "idle"
    /\ visited' = << >>
    /\ UNCHANGED <<cont, last, failed, it, cmp>>

NextIter ==
    \/ \E j \in ItIds, c \in ContIds : Begin(j, c)
    \/ \E j \in ItIds, c \in ContIds : End(j, c)
    \/ \E j \in ItIds, d \in Steps : Advance(j, d)
    \/ \E j \in ItIds, d \in Steps : Retreat(j, d)
    \/ \E j \in ItIds : Increment(j)
    \/ \E j \in ItIds : Decrement(j)
    \/ Assign
    \/ AssignNull
    \/ Compare
    \/ LoopStart
    \/ LoopTest
    \/ LoopBody
    \/ LoopExit

SpecIter == InitIter /\ [][NextIter]_vars

\* C6: the loop from begin() to end() over a container of size S dereferences
\* the positions 0, 1, ..., S-1 in ascending order, each once, and ends after
\* exactly S steps.
C6_IterationOrder ==
    /\ pc # "ub"
    /\ pc \in {"test", "body", "done"} =>
          LET S == size(cont[it[1].mContainer])
          IN  /\ visited = [i \in 1 .. Len(visited) |-> i - 1]
              /\ Len(visited) <= S
              /\ it[1].mIterPosition = Len(visited)
              /\ pc = "body" => Len(visited) < S
              /\ pc = "done" => Len(visited) = S

\* C6 witness: the loop has ended on a container of the largest size.
C6_Witness ==
    /\ pc = "done"
    /\ size(cont[1]) = MaxSize
    /\ Len(visited) = MaxSize

\* C7: after a null value is assigned to an iterator its position is the
\* maximum of std::size_t, as is the default of the position member, so it
\* equals neither begin() nor end() of any container, an empty one included.
C7_NullIsMaxPosition ==
    (last.op = "assign_null" /\ pc = "idle") =>
        /\ it[1].mIterPosition = SizeMax
        /\ NumericLimitsInfinity = SizeMax
        /\ \A c \in ContIds :
              /\ ~IterEq(it[1], begin(c))
              /\ ~IterEq(it[1], end(c))

\* C8: two iterators, of one container or of two, compare equal exactly when
\* their positions are equal, and != is the negation of ==.
C8_EqualityByPosition ==
    last.op = "compare" =>
        /\ cmp.eq = (it[1].mIterPosition = it[2].mIterPosition)
        /\ cmp.ne = ~cmp.eq

\* C8 witness: iterators of two different containers, at the same position,
\* were compared.
C8_Witness ==
    /\ last.op = "compare"
    /\ it[1].mContainer # it[2].mContainer
    /\ it[1].mIterPosition = it[2].mIterPosition
    /\ it[1].mIterPosition > 0

====
